---------------------------- MODULE Spec2Model ----------------------------
(***************************************************************************)
(* Vendor traceability service (src/main.py): the Vendor Registry          *)
(* (vendor_collection), the Batch Ledger (batch_collection), the Failure   *)
(* Recorder (report_failure) and the Durability Scoring Engine             *)
(* (get_vendor_analytics).                                                  *)
(*                                                                         *)
(* Every handler is an asyncio coroutine: it runs atomically between two   *)
(* awaits, and each await is one call to the storage layer.  A handler is  *)
(* therefore modelled as one action per storage call; the handlers of      *)
(* different requests interleave at those calls.  A collection is the      *)
(* sequence of its documents in natural (insertion) order; the source      *)
(* creates no unique index and never deletes.                              *)
(*                                                                         *)
(* Scores are kept in hundredths (97.0 is 9700), which is what             *)
(* round(score, 2) can return.                                             *)
(***************************************************************************)
EXTENDS Integers, Sequences, FiniteSets

VARIABLES
    vendors,    \* vendor_collection: sequence of Vendor documents
    batches,    \* batch_collection: sequence of BatchAllocation documents
    call,       \* per request slot: the handler in flight and its locals
    last,       \* the HTTP response the step just taken returned, if any (history)
    created,    \* per stored batch, the document as it was inserted (history)
    okCount,    \* per (batch_id, part_sku), the 200 responses of report_failure (history)
    lastVA      \* the latest analytics computed with no write since it began (history)

vars == <<vendors, batches, call, last, created, okCount, lastVA>>

---------------------------------------------------------------------------
(* Bounds of the model *)

NumProcs == 2       \* request slots (concurrent handlers)
MaxVendors == 2     \* documents vendor_collection may hold
MaxBatches == 2     \* documents batch_collection may hold
MaxReports == 3     \* report_failure calls admitted while they would match
LiveMaxVendors == 1 \* vendor records under FairSpec
LiveMaxReports == 2 \* matching report_failure calls under FairSpec

Procs == 1..NumProcs

---------------------------------------------------------------------------
(* Request payloads *)

DefaultDurabilityScore == 10000     \* Vendor.durability_score = 100.0

VendorIds == {"V-DENSO-09", "V-BOSCH-02"}
BatchIds == {"TOYOTA_202403A001", "TOYOTA_202403A002"}
Skus == {"90919-01191", "04465-33450"}

Vendor(id, name, score) ==
    [vendor_id |-> id, name |-> name, category |-> "Electronics",
     contact |-> "sales", durability_score |-> score]

VendorInputs ==
    { Vendor("V-DENSO-09", "Denso Corporation", DefaultDurabilityScore),
      Vendor("V-BOSCH-02", "Bosch", 9550) }

BatchPart(sku, name, quantity, failures) ==
    [part_sku |-> sku, part_name |-> name, quantity |-> quantity,
     failures_logged |-> failures]

BatchAllocation(id, vendor, manifest) ==
    [batch_allocation_id |-> id, company_name |-> "Toyota",
     vendor_details |-> [vendor_id |-> vendor],
     batch_info |-> [batch_number |-> "A001"],
     parts_manifest |-> manifest]

BatchInputs ==
    { BatchAllocation("TOYOTA_202403A001", "V-DENSO-09",
          << BatchPart("90919-01191", "Spark Plug", 100, 0) >>),
      BatchAllocation("TOYOTA_202403A002", "V-DENSO-09",
          << BatchPart("90919-01191", "Spark Plug", 2, 0),
             BatchPart("04465-33450", "Brake Pad", 49998, 50000) >>),
      BatchAllocation("TOYOTA_202403A002", "V-BOSCH-02",
          << BatchPart("90919-01191", "Spark Plug", 0, 0),
             BatchPart("90919-01191", "Spark Plug", 0, 0) >>),
      BatchAllocation("TOYOTA_202403A001", "V-BOSCH-02", << >>) }

---------------------------------------------------------------------------
(* The storage layer *)

Min(S) == CHOOSE x \in S : \A y \in S : x <= y

\* vendor_collection.find_one({"vendor_id": id}): the indices that match
VendorMatches(id) == {i \in DOMAIN vendors : vendors[i].vendor_id = id}

\* batch_collection.find_one({"batch_allocation_id": id}): the indices that match
BatchMatches(id) == {i \in DOMAIN batches : batches[i].batch_allocation_id = id}

\* the array elements the query "parts_manifest.part_sku": sku matches
PartMatches(doc, sku) ==
    {j \in DOMAIN doc.parts_manifest : doc.parts_manifest[j].part_sku = sku}

\* the filter of update_one: {"batch_allocation_id": id, "parts_manifest.part_sku": sku}
UpdateMatches(id, sku) ==
    {i \in BatchMatches(id) : PartMatches(batches[i], sku) # {}}

\* (a $inc through the all-positional operator $[] instead of $)
IncPartAll(doc, sku) ==
    [doc EXCEPT !.parts_manifest =
        [j \in DOMAIN doc.parts_manifest |->
            IF j \in PartMatches(doc, sku)
            THEN [doc.parts_manifest[j] EXCEPT !.failures_logged = @ + 1]
            ELSE doc.parts_manifest[j]]]

\* (the increment applied to the last array element the query matches)
IncPartLast(doc, sku) ==
    LET hit == PartMatches(doc, sku)
        j == CHOOSE x \in hit : \A y \in hit : y <= x
    IN  [doc EXCEPT !.parts_manifest[j].failures_logged = @ + 1]

\* {"$inc": {"parts_manifest.$.failures_logged": 1}}: the positional operator
\* names the first array element the query matched
IncPart(doc, sku) ==
    [doc EXCEPT !.parts_manifest[Min(PartMatches(doc, sku))].failures_logged = @ + 1]

\* (update_many instead of update_one)
UpdateMany(id, sku) ==
    [docs |-> [i \in DOMAIN batches |->
                  IF i \in UpdateMatches(id, sku)
                  THEN IncPart(batches[i], sku) ELSE batches[i]],
     modified_count |-> Cardinality(UpdateMatches(id, sku))]

\* update_one: the first document the filter matches is updated
UpdateOne(id, sku) ==
    IF UpdateMatches(id, sku) = {}
    THEN [docs |-> batches, modified_count |-> 0]
    ELSE [docs |-> [batches EXCEPT ![Min(UpdateMatches(id, sku))] = IncPart(@, sku)],
          modified_count |-> 1]

\* (the find of line 197 with skip(1): each fetch passes over one batch)
CursorRestSkip(id, pos) ==
    {i \in DOMAIN batches : i > pos + 1 /\ batches[i].vendor_details.vendor_id = id}

\* (find({}) : the cursor over every batch, whatever its vendor)
CursorRestAll(id, pos) == {i \in DOMAIN batches : i > pos}

\* batch_collection.find({"vendor_details.vendor_id": id}): what the cursor,
\* having returned the document at pos, has still to return
CursorRest(id, pos) ==
    {i \in DOMAIN batches : i > pos /\ batches[i].vendor_details.vendor_id = id}

---------------------------------------------------------------------------
(* get_vendor_analytics: the arithmetic *)

RECURSIVE SumQuantity(_), SumFailures(_), SkuFailures(_, _)
SumQuantity(manifest) ==
    IF manifest = << >> THEN 0
    ELSE Head(manifest).quantity + SumQuantity(Tail(manifest))

SumFailures(manifest) ==
    IF manifest = << >> THEN 0
    ELSE Head(manifest).failures_logged + SumFailures(Tail(manifest))

\* failures_logged summed over the entries of a manifest with the SKU
SkuFailures(manifest, sku) ==
    IF manifest = << >> THEN 0
    ELSE (IF Head(manifest).part_sku = sku THEN Head(manifest).failures_logged ELSE 0)
         + SkuFailures(Tail(manifest), sku)

\* round(x, 2) of x = num / den * 100, in hundredths: Python rounds half to even
RoundHundredths(num, den) ==
    LET q == (num * 10000) \div den
        r == (num * 10000) % den
    IN  IF 2 * r > den \/ (2 * r = den /\ q % 2 = 1) THEN q + 1 ELSE q

\* (score initialised to 0.0 instead of 100.0)
ScoreZeroDefault(total_parts_supplied, total_failures) ==
    IF total_parts_supplied > 0
    THEN RoundHundredths(total_parts_supplied - total_failures, total_parts_supplied)
    ELSE 0

\* (the score clamped at 0: max(0.0, ...))
ScoreClamped(total_parts_supplied, total_failures) ==
    IF total_parts_supplied > 0
    THEN IF total_failures > total_parts_supplied THEN 0
         ELSE RoundHundredths(total_parts_supplied - total_failures, total_parts_supplied)
    ELSE 10000

\* score = 100.0; if total_parts_supplied > 0: score = (...) * 100; round(score, 2)
Score(total_parts_supplied, total_failures) ==
    IF total_parts_supplied > 0
    THEN RoundHundredths(total_parts_supplied - total_failures, total_parts_supplied)
    ELSE 10000

---------------------------------------------------------------------------
(* Handlers *)

Idle == [op |-> "idle"]

NoResult == [none |-> TRUE]

NoResponse == [op |-> "none"]

Init ==
    /\ vendors = << >>
    /\ batches = << >>
    /\ call = [p \in Procs |-> Idle]
    /\ last = NoResponse
    /\ created = << >>
    /\ okCount = [k \in BatchIds \X Skus |-> 0]
    /\ lastVA = NoResult

\* a handler returns (or raises HTTPException): one HTTP response
Respond(op, args, status, body) ==
    last' = [op |-> op, args |-> args, status |-> status, body |-> body]

\* slot p returns; every scan in flight has now overlapped a write
AfterWrite(p) ==
    /\ call' = [q \in Procs |->
                  IF q = p THEN Idle
                  ELSE IF call[q].op = "get_vendor_analytics"
                       THEN [call[q] EXCEPT !.dirty = TRUE]
                       ELSE call[q]]
    /\ lastVA' = NoResult

PendingOps(op) == Cardinality({q \in Procs : call[q].op = op})

\* register_vendor, lines 138-140: find_one finds the vendor_id
RegisterVendorExists(p, vendor) ==
    /\ call[p] = Idle
    /\ VendorMatches(vendor.vendor_id) # {}
    /\ Respond("register_vendor", [vendor_id |-> vendor.vendor_id], 400,
               [detail |-> "Vendor ID already exists"])
    /\ UNCHANGED <<vendors, batches, call, created, okCount, lastVA>>

\* register_vendor, lines 138-139: find_one finds nothing
RegisterVendorCheck(p, vendor) ==
    /\ call[p] = Idle
    /\ VendorMatches(vendor.vendor_id) = {}
    /\ Len(vendors) + PendingOps("register_vendor") < MaxVendors
    /\ call' = [call EXCEPT ![p] = [op |-> "register_vendor", vendor |-> vendor]]
    /\ last' = NoResponse
    /\ UNCHANGED <<vendors, batches, created, okCount, lastVA>>

\* register_vendor, lines 142-143: insert_one
RegisterVendorInsert(p) ==
    /\ call[p].op = "register_vendor"
    /\ vendors' = Append(vendors, call[p].vendor)
    /\ Respond("register_vendor", [vendor_id |-> call[p].vendor.vendor_id], 200,
               [message |-> "Vendor Registered", id |-> Len(vendors) + 1])
    /\ AfterWrite(p)
    /\ UNCHANGED <<batches, created, okCount>>

\* add_batch, lines 149-151: find_one finds the batch_allocation_id
AddBatchExists(p, batch) ==
    /\ call[p] = Idle
    /\ BatchMatches(batch.batch_allocation_id) # {}
    /\ Respond("add_batch", [batch_allocation_id |-> batch.batch_allocation_id], 400,
               [detail |-> "Batch ID already exists"])
    /\ UNCHANGED <<vendors, batches, call, created, okCount, lastVA>>

\* add_batch, lines 149-150: find_one finds nothing
AddBatchCheck(p, batch) ==
    /\ call[p] = Idle
    /\ BatchMatches(batch.batch_allocation_id) = {}
    /\ Len(batches) + PendingOps("add_batch") < MaxBatches
    /\ call' = [call EXCEPT ![p] = [op |-> "add_batch", batch |-> batch]]
    /\ last' = NoResponse
    /\ UNCHANGED <<vendors, batches, created, okCount, lastVA>>

\* (replace_one with upsert instead of insert_one: a stored batch with the id
\* is overwritten)
StoreBatchUpsert(batch) ==
    IF BatchMatches(batch.batch_allocation_id) = {}
    THEN Append(batches, batch)
    ELSE [batches EXCEPT ![Min(BatchMatches(batch.batch_allocation_id))] = batch]

\* insert_one(batch.dict()), line 154
StoreBatch(batch) == Append(batches, batch)

\* (insert_one against a unique index on batch_allocation_id, repeated until
\* the id is free)
AddBatchInsertRetry(p) ==
    /\ call[p].op = "add_batch"
    /\ IF BatchMatches(call[p].batch.batch_allocation_id) # {}
       THEN UNCHANGED vars
       ELSE /\ batches' = StoreBatch(call[p].batch)
            /\ created' = Append(created, call[p].batch)
            /\ Respond("add_batch",
                       [batch_allocation_id |-> call[p].batch.batch_allocation_id], 200,
                       [message |-> "Batch Logged Successfully", id |-> Len(batches) + 1])
            /\ AfterWrite(p)
            /\ UNCHANGED <<vendors, okCount>>

\* add_batch, lines 154-155: insert_one
AddBatchInsert(p) ==
    /\ call[p].op = "add_batch"
    /\ batches' = StoreBatch(call[p].batch)
    /\ created' = Append(created, call[p].batch)
    /\ Respond("add_batch", [batch_allocation_id |-> call[p].batch.batch_allocation_id],
               200,
               [message |-> "Batch Logged Successfully", id |-> Len(batches) + 1])
    /\ AfterWrite(p)
    /\ UNCHANGED <<vendors, okCount>>

RECURSIVE SumCounts(_)
SumCounts(S) ==
    IF S = {} THEN 0
    ELSE LET k == CHOOSE x \in S : TRUE IN okCount[k] + SumCounts(S \ {k})

\* (the check of lines 166-167 left out: the handler goes on to update_one)
ReportFailureNoCheck(p, batch_id, part_sku) ==
    /\ call[p] = Idle
    /\ BatchMatches(batch_id) = {}
    /\ call' = [call EXCEPT ![p] =
                  [op |-> "report_failure", batch_id |-> batch_id,
                   part_sku |-> part_sku, batch |-> Idle]]
    /\ last' = NoResponse
    /\ UNCHANGED <<vendors, batches, created, okCount, lastVA>>

\* report_failure, lines 165-167: find_one finds no batch
ReportFailureNotFound(p, batch_id, part_sku) ==
    /\ call[p] = Idle
    /\ BatchMatches(batch_id) = {}
    /\ Respond("report_failure", [batch_id |-> batch_id, part_sku |-> part_sku],
               404, [detail |-> "Batch not found"])
    /\ UNCHANGED <<vendors, batches, call, created, okCount, lastVA>>

\* report_failure, lines 165-166: find_one returns the first batch with the id
ReportFailureFind(p, batch_id, part_sku) ==
    /\ call[p] = Idle
    /\ BatchMatches(batch_id) # {}
    /\ UpdateMatches(batch_id, part_sku) # {} =>
           SumCounts(DOMAIN okCount) + PendingOps("report_failure") < MaxReports
    /\ call' = [call EXCEPT ![p] =
                  [op |-> "report_failure", batch_id |-> batch_id,
                   part_sku |-> part_sku,
                   batch |-> batches[Min(BatchMatches(batch_id))]]]
    /\ last' = NoResponse
    /\ UNCHANGED <<vendors, batches, created, okCount, lastVA>>

\* (the check of lines 175-176 left out)
ReportStatusAlwaysOk(modified_count) == 200

\* lines 175-181: 400 when update_one modified nothing
ReportStatus(modified_count) == IF modified_count = 0 THEN 400 ELSE 200

\* (read-modify-write: the counter of the batch read at line 165 is
\* incremented in the handler and the manifest written back with $set)
ApplyUpdateFromSnapshot(p) ==
    LET c == call[p]
        hit == UpdateMatches(c.batch_id, c.part_sku)
    IN  IF hit = {} \/ PartMatches(c.batch, c.part_sku) = {}
        THEN UpdateOne(c.batch_id, c.part_sku)
        ELSE [docs |-> [batches EXCEPT ![Min(hit)].parts_manifest =
                            IncPart(c.batch, c.part_sku).parts_manifest],
              modified_count |-> 1]

\* lines 170-173: the update_one of slot p's request
ApplyUpdate(p) == UpdateOne(call[p].batch_id, call[p].part_sku)

\* (history) whether the counters of the request's SKU moved, in the batch
\* find_one returned, between line 165 and line 170
Raced(c) ==
    \/ BatchMatches(c.batch_id) = {}
    \/ c.batch = Idle
    \/ SkuFailures(c.batch.parts_manifest, c.part_sku)
          # SkuFailures(batches[Min(BatchMatches(c.batch_id))].parts_manifest, c.part_sku)

\* (the optional step of lines 178-179 carried out: the score recomputed from
\* the batch read at line 165 and written to the records of its vendor)
VendorsRescored(p) ==
    LET doc == call[p].batch
    IN  [i \in DOMAIN vendors |->
            IF vendors[i].vendor_id = doc.vendor_details.vendor_id
            THEN [vendors[i] EXCEPT !.durability_score =
                     Score(SumQuantity(doc.parts_manifest),
                           SumFailures(doc.parts_manifest) + 1)]
            ELSE vendors[i]]

\* lines 178-179: the vendor score is not recalculated; vendor_collection is
\* not written
VendorsAfterReport(p) == vendors

\* report_failure, lines 170-181: update_one, then 400 or the fixed message
ReportFailureUpdate(p) ==
    /\ call[p].op = "report_failure"
    /\ LET c == call[p]
           key == <<c.batch_id, c.part_sku>>
           result == ApplyUpdate(p)
           status == ReportStatus(result.modified_count)
       IN  /\ batches' = result.docs
           /\ last' = [op |-> "report_failure",
                       args |-> [batch_id |-> c.batch_id, part_sku |-> c.part_sku],
                       status |-> status,
                       body |-> IF status = 200
                                THEN [message |->
                                        "Failure Logged. Vendor Durability Score Impacted."]
                                ELSE [detail |-> "Part SKU not found in this batch"],
                       raced |-> Raced(c)]
           /\ okCount' = IF status = 200 THEN [okCount EXCEPT ![key] = @ + 1]
                          ELSE okCount
           /\ IF result.modified_count > 0
              THEN AfterWrite(p)
              ELSE /\ call' = [call EXCEPT ![p] = Idle]
                   /\ lastVA' = lastVA
    /\ vendors' = VendorsAfterReport(p)
    /\ UNCHANGED created

\* (the vendor looked up in the batch ledger: 404 when no stored batch carries
\* the vendor_id)
VendorAnalyticsNotFoundByBatch(p, vendor_id) ==
    /\ call[p] = Idle
    /\ CursorRest(vendor_id, 0) = {}
    /\ Respond("get_vendor_analytics", [vendor_id |-> vendor_id], 404,
               [detail |-> "Vendor not found"])
    /\ UNCHANGED <<vendors, batches, call, created, okCount, lastVA>>

\* get_vendor_analytics, lines 187-189: find_one finds no vendor
VendorAnalyticsNotFound(p, vendor_id) ==
    /\ call[p] = Idle
    /\ VendorMatches(vendor_id) = {}
    /\ Respond("get_vendor_analytics", [vendor_id |-> vendor_id], 404,
               [detail |-> "Vendor not found"])
    /\ UNCHANGED <<vendors, batches, call, created, okCount, lastVA>>

RECURSIVE VendorFailures(_, _)
\* (history) failures_logged summed over the batches of vendor v in docs
VendorFailures(docs, v) ==
    IF docs = << >> THEN 0
    ELSE (IF Head(docs).vendor_details.vendor_id = v
          THEN SumFailures(Head(docs).parts_manifest) ELSE 0)
         + VendorFailures(Tail(docs), v)

\* (the accumulators hoisted to module level and never reset: a request starts
\* from the totals the previous one returned)
VendorAnalyticsStartStale(p, vendor_id) ==
    /\ call[p] = Idle
    /\ VendorMatches(vendor_id) # {}
    /\ LET carried == last.op = "get_vendor_analytics" /\ last.status = 200
       IN  call' = [call EXCEPT ![p] =
                  [op |-> "get_vendor_analytics", vendor_id |-> vendor_id,
                   vendor |-> vendors[Min(VendorMatches(vendor_id))],
                   pos |-> 0,
                   total_parts_supplied |->
                       IF carried THEN last.body.total_parts_supplied ELSE 0,
                   total_failures |->
                       IF carried THEN last.body.total_failures_detected ELSE 0,
                   batches |-> 0, dirty |-> FALSE,
                   start_failures |-> VendorFailures(batches, vendor_id),
                   start_len |-> Len(batches), seen |-> << >>]]
    /\ last' = NoResponse
    /\ UNCHANGED <<vendors, batches, created, okCount, lastVA>>

\* get_vendor_analytics, lines 187-197: find_one returns the first vendor with
\* the id; the accumulators start at 0 and the cursor before the first batch
VendorAnalyticsStart(p, vendor_id) ==
    /\ call[p] = Idle
    /\ VendorMatches(vendor_id) # {}
    /\ call' = [call EXCEPT ![p] =
                  [op |-> "get_vendor_analytics", vendor_id |-> vendor_id,
                   vendor |-> vendors[Min(VendorMatches(vendor_id))],
                   pos |-> 0, total_parts_supplied |-> 0, total_failures |-> 0,
                   batches |-> 0, dirty |-> FALSE,
                   start_failures |-> VendorFailures(batches, vendor_id),
                   start_len |-> Len(batches), seen |-> << >>]]
    /\ last' = NoResponse
    /\ UNCHANGED <<vendors, batches, created, okCount, lastVA>>

\* (total_failures += part["quantity"])
AccumulateQuantityTwice(c, batch) ==
    [c EXCEPT !.total_parts_supplied = @ + SumQuantity(batch.parts_manifest),
              !.total_failures = @ + SumQuantity(batch.parts_manifest),
              !.batches = @ + 1]

\* lines 199-202: batches.append(...) and the loop over the batch's manifest
Accumulate(c, batch) ==
    [c EXCEPT !.total_parts_supplied = @ + SumQuantity(batch.parts_manifest),
              !.total_failures = @ + SumFailures(batch.parts_manifest),
              !.batches = @ + 1]

\* get_vendor_analytics, lines 198-202: the cursor returns the next batch
VendorAnalyticsFetch(p) ==
    /\ call[p].op = "get_vendor_analytics"
    /\ CursorRest(call[p].vendor_id, call[p].pos) # {}
    /\ LET i == Min(CursorRest(call[p].vendor_id, call[p].pos))
       IN  call' = [call EXCEPT ![p] =
                      [Accumulate(@, batches[i]) EXCEPT !.pos = i,
                                                        !.seen = Append(@, i)]]
    /\ last' = NoResponse
    /\ UNCHANGED <<vendors, batches, created, okCount, lastVA>>

\* lines 210-216: the report returned
Report(c) ==
    [vendor_name |-> c.vendor.name,
     calculated_durability_score |-> Score(c.total_parts_supplied, c.total_failures),
     total_parts_supplied |-> c.total_parts_supplied,
     total_failures_detected |-> c.total_failures,
     batches_analyzed |-> c.batches]

\* get_vendor_analytics, lines 198 and 204-216: the cursor is exhausted
VendorAnalyticsFinish(p) ==
    /\ call[p].op = "get_vendor_analytics"
    /\ CursorRest(call[p].vendor_id, call[p].pos) = {}
    /\ last' = [op |-> "get_vendor_analytics",
                args |-> [vendor_id |-> call[p].vendor_id], status |-> 200,
                body |-> Report(call[p]), clean |-> ~call[p].dirty,
                start_failures |-> call[p].start_failures,
                repeat |-> lastVA # NoResult /\ lastVA.vendor_id = call[p].vendor_id]
    /\ lastVA' = IF call[p].dirty THEN lastVA
                 ELSE [vendor_id |-> call[p].vendor_id, body |-> Report(call[p])]
    /\ call' = [call EXCEPT ![p] = Idle]
    /\ UNCHANGED <<vendors, batches, created, okCount>>

---------------------------------------------------------------------------

Next ==
    \E p \in Procs :
        \/ \E vendor \in VendorInputs : RegisterVendorExists(p, vendor)
        \/ \E vendor \in VendorInputs : RegisterVendorCheck(p, vendor)
        \/ RegisterVendorInsert(p)
        \/ \E batch \in BatchInputs : AddBatchExists(p, batch)
        \/ \E batch \in BatchInputs : AddBatchCheck(p, batch)
        \/ AddBatchInsert(p)
        \/ \E batch_id \in BatchIds, part_sku \in Skus :
               ReportFailureNotFound(p, batch_id, part_sku)
        \/ \E batch_id \in BatchIds, part_sku \in Skus :
               ReportFailureFind(p, batch_id, part_sku)
        \/ ReportFailureUpdate(p)
        \/ \E vendor_id \in VendorIds : VendorAnalyticsNotFound(p, vendor_id)
        \/ \E vendor_id \in VendorIds : VendorAnalyticsStart(p, vendor_id)
        \/ VendorAnalyticsFetch(p)
        \/ VendorAnalyticsFinish(p)

Spec == Init /\ [][Next]_vars

\* the step of slot p's handler that follows the answer to the storage call it
\* awaits
HandlerStep(p) ==
    \/ RegisterVendorInsert(p)
    \/ AddBatchInsert(p)
    \/ ReportFailureUpdate(p)
    \/ VendorAnalyticsFetch(p)
    \/ VendorAnalyticsFinish(p)

\* the requests admitted while liveness is checked: one vendor record and one
\* matching report_failure; every other request as in Next
FairNext ==
    \E p \in Procs :
        \/ HandlerStep(p)
        \/ \E vendor \in VendorInputs : RegisterVendorExists(p, vendor)
        \/ \E vendor \in VendorInputs :
               /\ Len(vendors) + PendingOps("register_vendor") < LiveMaxVendors
               /\ RegisterVendorCheck(p, vendor)
        \/ \E batch \in BatchInputs : AddBatchExists(p, batch)
        \/ \E batch \in BatchInputs : AddBatchCheck(p, batch)
        \/ \E batch_id \in BatchIds, part_sku \in Skus :
               ReportFailureNotFound(p, batch_id, part_sku)
        \/ \E batch_id \in BatchIds, part_sku \in Skus :
               /\ UpdateMatches(batch_id, part_sku) # {} =>
                      SumCounts(DOMAIN okCount) + PendingOps("report_failure")
                          < LiveMaxReports
               /\ ReportFailureFind(p, batch_id, part_sku)
        \/ \E vendor_id \in VendorIds : VendorAnalyticsNotFound(p, vendor_id)
        \/ \E vendor_id \in VendorIds : VendorAnalyticsStart(p, vendor_id)

\* the storage layer answers every call and the event loop resumes every
\* handler whose call was answered; requests arrive or not
FairSpec == Init /\ [][FairNext]_vars /\ \A p \in Procs : WF_vars(HandlerStep(p))

---------------------------------------------------------------------------
(* Properties *)

RECURSIVE KeyFailures(_, _, _)
\* failures_logged summed over the entries keyed (id, sku) of a sequence of batches
KeyFailures(docs, id, sku) ==
    IF docs = << >> THEN 0
    ELSE (IF Head(docs).batch_allocation_id = id
          THEN SkuFailures(Head(docs).parts_manifest, sku) ELSE 0)
         + KeyFailures(Tail(docs), id, sku)

\* C1: after n successful report_failure calls on (batch_id, part_sku), however
\* their storage calls interleave, the failures logged under that key are what
\* was inserted plus n: no increment is lost, none is applied twice.
C1_IncrementsExact ==
    \A id \in BatchIds, sku \in Skus :
        KeyFailures(batches, id, sku)
            = KeyFailures(created, id, sku) + okCount[<<id, sku>>]

\* a second success on a key whose counter moved between this request's
\* find_one and its update_one
C1_Witness ==
    /\ last.op = "report_failure" /\ last.status = 200 /\ last.raced
    /\ okCount[<<last.args.batch_id, last.args.part_sku>>] >= 2

\* C2: no two vendor records share a vendor_id (the second register_vendor of
\* an id fails with 400), also when the calls run concurrently.
C2_UniqueVendorId ==
    \A i, j \in DOMAIN vendors :
        vendors[i].vendor_id = vendors[j].vendor_id => i = j

\* C3: the ledger holds at most one batch per batch_allocation_id (add_batch
\* fails with 400 and stores nothing when the id exists), also under
\* concurrent add_batch calls.
C3_UniqueBatchId ==
    \A i, j \in DOMAIN batches :
        batches[i].batch_allocation_id = batches[j].batch_allocation_id => i = j

\* what a step of report_failure on a missing batch does
C4_NotFoundStep ==
    /\ (last'.op = "report_failure" /\ last'.status = 404) =>
            /\ BatchMatches(last'.args.batch_id) = {}
            /\ last'.body = [detail |-> "Batch not found"]
            /\ batches' = batches /\ vendors' = vendors
    /\ \A p \in Procs :
            (call[p] = Idle /\ call'[p].op = "report_failure") =>
                BatchMatches(call'[p].batch_id) # {}
    /\ (last'.op = "report_failure" /\ last'.status # 404) =>
            \E p \in Procs : call[p].op = "report_failure" /\ call'[p] = Idle

\* C4: report_failure on a batch_id no stored batch has returns 404 "Batch not
\* found" and leaves every batch and vendor record as it was: a 404 is returned
\* only then and without a write, and the handler goes on to update_one only
\* when find_one found a batch.
C4_NotFound == [][C4_NotFoundStep]_vars

C4_Witness ==
    /\ last.op = "report_failure" /\ last.status = 404
    /\ \E i \in DOMAIN batches : batches[i] # created[i]
    /\ vendors # << >>

\* what the update_one step of report_failure returns
C5_PartNotInManifestStep ==
    \A p \in Procs :
        (call[p].op = "report_failure" /\ call'[p] # call[p]) =>
            LET id == call[p].batch_id
                sku == call[p].part_sku
            IN  /\ last'.op = "report_failure"
                /\ last'.args = [batch_id |-> id, part_sku |-> sku]
                /\ IF UpdateMatches(id, sku) = {}
                   THEN /\ last'.status = 400
                        /\ last'.body = [detail |-> "Part SKU not found in this batch"]
                        /\ batches' = batches
                   ELSE last'.status = 200

\* C5: report_failure on a stored batch_id with a part_sku no manifest of that
\* id holds returns 400 "Part SKU not found in this batch" (not the 404) and
\* changes no failures_logged; it never returns the 400 when a manifest of that
\* id holds the SKU.
C5_PartNotInManifest == [][C5_PartNotInManifestStep]_vars

C5_Witness ==
    /\ last.op = "report_failure" /\ last.status = 400
    /\ BatchMatches(last.args.batch_id) # {}
    /\ \E i \in BatchMatches(last.args.batch_id) : batches[i] # created[i]

RECURSIVE SumSet(_, _)
SumSet(S, f) ==
    IF S = {} THEN 0
    ELSE LET x == CHOOSE y \in S : TRUE IN f[x] + SumSet(S \ {x}, f)

Abs(n) == IF n < 0 THEN -n ELSE n

\* the stored batches of a vendor, and their manifest entries
VendorBatchSet(v) ==
    {i \in DOMAIN batches : batches[i].vendor_details.vendor_id = v}

VendorEntries(v) ==
    UNION {{<<i, j>> : j \in DOMAIN batches[i].parts_manifest} : i \in VendorBatchSet(v)}

Supplied(v) ==
    SumSet(VendorEntries(v),
           [e \in VendorEntries(v) |-> batches[e[1]].parts_manifest[e[2]].quantity])

Failures(v) ==
    SumSet(VendorEntries(v),
           [e \in VendorEntries(v) |-> batches[e[1]].parts_manifest[e[2]].failures_logged])

\* h hundredths is (supplied - failed) * 100 / supplied rounded to 2 decimals
IsRounded(h, supplied, failed) ==
    2 * Abs(h * supplied - (supplied - failed) * 10000) <= supplied

\* the report of a scan that overlapped no write
C6_AnalyticsStep ==
    (last'.op = "get_vendor_analytics" /\ last'.status = 200 /\ last'.clean) =>
        LET v == last'.args.vendor_id
            r == last'.body
        IN  /\ VendorMatches(v) # {}
            /\ r.total_parts_supplied = Supplied(v)
            /\ r.total_failures_detected = Failures(v)
            /\ r.batches_analyzed = Cardinality(VendorBatchSet(v))
            /\ Supplied(v) > 0 =>
                   IsRounded(r.calculated_durability_score, Supplied(v), Failures(v))
            /\ (Supplied(v) = 100 /\ Failures(v) = 3) =>
                   r.calculated_durability_score = 9700

\* C6: with no write while it runs, get_vendor_analytics of a registered vendor
\* returns the sums of quantity and of failures_logged over the manifest
\* entries of exactly the batches of that vendor, the number of those batches,
\* and, when the supply is positive, the survival percentage rounded to 2
\* decimals; 100 supplied with 3 failures in 1 batch gives 97.0.
C6_Analytics == [][C6_AnalyticsStep]_vars

C6_Witness ==
    /\ last.op = "get_vendor_analytics" /\ last.status = 200 /\ last.clean
    /\ last.args.vendor_id = "V-DENSO-09"
    /\ last.body = [vendor_name |-> "Denso Corporation",
                    calculated_durability_score |-> 9700,
                    total_parts_supplied |-> 100,
                    total_failures_detected |-> 3,
                    batches_analyzed |-> 1]
    /\ Len(batches) = 2

\* C7: whenever the total supplied quantity of the vendor is 0 (no batches,
\* empty manifests, zero quantities) the score returned is 100.0, whatever the
\* total of failures_logged.
C7_ZeroSupplyScore ==
    /\ (last.op = "get_vendor_analytics" /\ last.status = 200
            /\ (last.body.total_parts_supplied = 0 \/ last.body.batches_analyzed = 0))
          => last.body.calculated_durability_score = 10000
    /\ (lastVA # NoResult /\ Supplied(lastVA.vendor_id) = 0)
          => lastVA.body.calculated_durability_score = 10000

C7_Witness ==
    /\ last.op = "get_vendor_analytics" /\ last.status = 200 /\ last.clean
    /\ last.body.total_parts_supplied = 0
    /\ last.body.total_failures_detected > 0
    /\ last.body.batches_analyzed = 2

\* the step is one of slot p's get_vendor_analytics
AnalyticsStepOf(p) ==
    \/ call[p] = Idle /\ call'[p].op = "get_vendor_analytics"
    \/ /\ call[p].op = "get_vendor_analytics"
       /\ \/ call'[p] = Idle
          \/ call'[p].op = "get_vendor_analytics" /\ call'[p].pos # call[p].pos

\* what a step of get_vendor_analytics writes and returns
C8_ReadOnlyStep ==
    /\ ((\E p \in Procs : AnalyticsStepOf(p)) \/ last'.op = "get_vendor_analytics")
          => (vendors' = vendors /\ batches' = batches)
    /\ (last'.op = "get_vendor_analytics" /\ last'.status = 200 /\ last'.clean
            /\ lastVA # NoResult /\ lastVA.vendor_id = last'.args.vendor_id)
          => last'.body = lastVA.body

\* C8: get_vendor_analytics writes nothing, and two calls for the same vendor
\* with no write between them return the same report.
C8_ReadOnlyDeterministic == [][C8_ReadOnlyStep]_vars

C8_Witness ==
    /\ last.op = "get_vendor_analytics" /\ last.status = 200
    /\ last.clean /\ last.repeat
    /\ last.body.total_failures_detected > 0
    /\ last.body.batches_analyzed = 2

\* how a step may change the stored counters
C9_CounterStep ==
    \A i \in DOMAIN batches :
        /\ i \in DOMAIN batches'
        /\ DOMAIN batches'[i].parts_manifest = DOMAIN batches[i].parts_manifest
        /\ \A j \in DOMAIN batches[i].parts_manifest :
              LET old == batches[i].parts_manifest[j].failures_logged
                  new == batches'[i].parts_manifest[j].failures_logged
              IN  /\ new >= old
                  /\ new # old =>
                        /\ new = old + 1
                        /\ last'.op = "report_failure" /\ last'.status = 200
                        /\ last'.args =
                              [batch_id |-> batches[i].batch_allocation_id,
                               part_sku |-> batches[i].parts_manifest[j].part_sku]
                        /\ \E p \in Procs :
                              /\ call[p].op = "report_failure" /\ call'[p] = Idle
                              /\ call[p].batch_id = batches[i].batch_allocation_id
                              /\ call[p].part_sku = batches[i].parts_manifest[j].part_sku

\* C9: a stored failures_logged never decreases, and a step that changes one
\* is a successful report_failure on that batch_id and part_sku raising it by 1;
\* no stored batch is removed or replaced.
C9_CounterMonotone == [][C9_CounterStep]_vars

C9_Witness ==
    /\ Len(batches) = 2 /\ Len(vendors) = 2
    /\ \E i \in DOMAIN batches : \E j \in DOMAIN batches[i].parts_manifest :
          batches[i].parts_manifest[j].failures_logged
              = created[i].parts_manifest[j].failures_logged + 2
    /\ last.op = "get_vendor_analytics" /\ last.status = 200

\* what a successful report_failure step changes
C10_FrameStep ==
    (last'.op = "report_failure" /\ last'.status = 200) =>
        /\ vendors' = vendors
        /\ \E i \in BatchMatches(last'.args.batch_id) :
              \E j \in PartMatches(batches[i], last'.args.part_sku) :
                 batches' = [batches EXCEPT ![i].parts_manifest[j].failures_logged = @ + 1]
        /\ \A q \in Procs :
              (call[q].op \in {"report_failure", "add_batch", "register_vendor"}
                 /\ call'[q] # Idle) => call'[q] = call[q]

\* C10: a successful report_failure changes the failures_logged of one manifest
\* entry with the SKU in a batch with the batch_id and nothing else: not
\* another entry, field, batch or vendor, nor a request pending on another key.
C10_Frame == [][C10_FrameStep]_vars

C10_Witness ==
    /\ last.op = "report_failure" /\ last.status = 200
    /\ Len(batches) = 2
    /\ \E i \in BatchMatches(last.args.batch_id) :
          /\ Len(batches[i].parts_manifest) = 2
          /\ batches[i] # created[i]
    /\ \E q \in Procs :
          /\ call[q].op = "report_failure"
          /\ call[q].batch_id # last.args.batch_id

\* what the vendor lookup of get_vendor_analytics decides
C11_VendorLookupStep ==
    /\ (last'.op = "get_vendor_analytics" /\ last'.status = 404) =>
            /\ VendorMatches(last'.args.vendor_id) = {}
            /\ last'.body = [detail |-> "Vendor not found"]
    /\ \A p \in Procs :
            (call[p] = Idle /\ call'[p].op = "get_vendor_analytics") =>
                /\ VendorMatches(call'[p].vendor_id) # {}
                /\ call'[p].vendor.vendor_id = call'[p].vendor_id
    /\ \A p \in Procs :
            (call[p].op = "get_vendor_analytics" /\ call'[p] = Idle) =>
                /\ last'.op = "get_vendor_analytics" /\ last'.status = 200
                /\ last'.args.vendor_id = call[p].vendor_id
    /\ (last'.op = "get_vendor_analytics" /\ last'.status = 200) =>
            \E i \in VendorMatches(last'.args.vendor_id) :
                last'.body.vendor_name = vendors[i].name

\* C11: get_vendor_analytics returns 404 "Vendor not found" only when no vendor
\* record has the vendor_id, whatever batches carry that id in vendor_details;
\* it goes on to the scan only when a record has it, the scan then ends in a
\* 200 and nothing else, and the 200 names a vendor record with that id.
C11_VendorLookup == [][C11_VendorLookupStep]_vars

\* a 404 for a vendor_id that stored batches carry
C11_Witness ==
    /\ last.op = "get_vendor_analytics" /\ last.status = 404
    /\ \E i \in DOMAIN batches :
          /\ batches[i].vendor_details.vendor_id = last.args.vendor_id
          /\ batches[i] # created[i]
    /\ vendors # << >>

\* C12 as stated: a report with more failures than a positive supply carries a
\* score below 0.
C12_NegativeScore ==
    (last.op = "get_vendor_analytics" /\ last.status = 200
        /\ last.body.total_parts_supplied > 0
        /\ last.body.total_failures_detected > last.body.total_parts_supplied)
      => last.body.calculated_durability_score < 0

\* the score reported for more failures than a positive supply
OverReportedScore(score, supplied, failed) ==
    /\ score <= 0
    /\ IsRounded(score, supplied, failed)
    /\ 20000 * (failed - supplied) > supplied => score < 0
    /\ 20000 * (failed - supplied) < supplied => score = 0

\* a report on an entry that already has as many failures as parts, and a
\* report with more failures than parts
C12_OverReportStep ==
    /\ \A p \in Procs :
            (call[p].op = "report_failure" /\ call'[p] = Idle
                /\ UpdateMatches(call[p].batch_id, call[p].part_sku) # {}) =>
                LET i == Min(UpdateMatches(call[p].batch_id, call[p].part_sku))
                    j == Min(PartMatches(batches[i], call[p].part_sku))
                    part == batches[i].parts_manifest[j]
                IN  part.failures_logged >= part.quantity =>
                       /\ last'.op = "report_failure" /\ last'.status = 200
                       /\ batches'[i].parts_manifest[j].failures_logged
                              = part.failures_logged + 1
                       /\ batches'[i].parts_manifest[j].failures_logged > part.quantity
    /\ (last'.op = "get_vendor_analytics" /\ last'.status = 200) =>
            LET r == last'.body
                v == last'.args.vendor_id
            IN  /\ (r.total_parts_supplied > 0
                        /\ r.total_failures_detected > r.total_parts_supplied) =>
                       OverReportedScore(r.calculated_durability_score,
                                         r.total_parts_supplied,
                                         r.total_failures_detected)
                /\ (last'.clean /\ Supplied(v) > 0 /\ Failures(v) > Supplied(v)) =>
                       OverReportedScore(r.calculated_durability_score,
                                         Supplied(v), Failures(v))

\* C12 (amended): report_failure does not compare failures_logged with
\* quantity: on an entry with failures_logged >= quantity it still returns 200
\* and adds 1; get_vendor_analytics with more failures than a positive supply
\* returns the unclamped value of the same formula rounded to 2 decimals,
\* which is below 0 when the excess is more than 0.005% of the supply and 0
\* when it is less.
C12_OverReport == [][C12_OverReportStep]_vars

\* 50000 parts supplied and 50003 failures logged: -0.01
C12_Witness ==
    /\ last.op = "get_vendor_analytics" /\ last.status = 200 /\ last.clean
    /\ last.body.total_parts_supplied = 50000
    /\ last.body.total_failures_detected = 50003
    /\ last.body.calculated_durability_score = -1
    /\ \E i \in DOMAIN batches : \E j \in DOMAIN batches[i].parts_manifest :
          batches[i].parts_manifest[j].failures_logged
              > batches[i].parts_manifest[j].quantity

\* how a step may change vendor_collection
C13_VendorFrozenStep ==
    /\ \A i \in DOMAIN vendors :
            i \in DOMAIN vendors' /\ vendors'[i] = vendors[i]
    /\ vendors' # vendors =>
            /\ last'.op = "register_vendor" /\ last'.status = 200
            /\ Len(vendors') = Len(vendors) + 1
            /\ \E p \in Procs :
                  /\ call[p].op = "register_vendor" /\ call'[p] = Idle
                  /\ vendors'[Len(vendors')] = call[p].vendor
    /\ last'.op \in {"report_failure", "add_batch", "get_vendor_analytics"} =>
            vendors' = vendors

\* C13: a stored vendor record is never changed or removed: the only write to
\* vendor_collection is the insert of register_vendor, which stores the record
\* as submitted, so durability_score keeps its registration value whatever
\* report_failure logs.
C13_VendorFrozen == [][C13_VendorFrozenStep]_vars

\* after a successful report the stored score of the batch's vendor is still
\* the default 100.0 while the score computed from its batches is not
C13_Witness ==
    /\ last.op = "report_failure" /\ last.status = 200
    /\ \E i \in BatchMatches(last.args.batch_id) :
          LET v == batches[i].vendor_details.vendor_id
          IN  /\ batches[i] # created[i]
              /\ \E k \in VendorMatches(v) :
                    /\ vendors[k].durability_score = DefaultDurabilityScore
                    /\ Score(Supplied(v), Failures(v)) # vendors[k].durability_score

RECURSIVE Scan(_)
\* the scan of lines 198-202 run to the end over the batches as stored now
Scan(c) ==
    IF CursorRest(c.vendor_id, c.pos) = {} THEN c
    ELSE LET i == Min(CursorRest(c.vendor_id, c.pos))
         IN  Scan([Accumulate(c, batches[i]) EXCEPT !.pos = i])

\* what get_vendor_analytics(v) returns when no write overlaps it
QuietReport(v) ==
    Report(Scan([op |-> "get_vendor_analytics", vendor_id |-> v,
                 vendor |-> vendors[Min(VendorMatches(v))],
                 pos |-> 0, total_parts_supplied |-> 0, total_failures |-> 0,
                 batches |-> 0, dirty |-> FALSE]))

\* the report of vendor v as a function of the stored batches
ReportOfStored(v) ==
    [vendor_name |-> vendors[Min(VendorMatches(v))].name,
     calculated_durability_score |-> Score(Supplied(v), Failures(v)),
     total_parts_supplied |-> Supplied(v),
     total_failures_detected |-> Failures(v),
     batches_analyzed |-> Cardinality(VendorBatchSet(v))]

\* the scan of a registered vendor returns the sums over its stored batches
C15_QuietReportIsStored ==
    \A w \in VendorIds :
        VendorMatches(w) # {} => QuietReport(w) = ReportOfStored(w)

\* what a successful report_failure does to the reports of the vendors
C15_ReportEffectStep ==
    /\ (last'.op = "get_vendor_analytics" /\ last'.status = 200 /\ last'.clean) =>
            last'.body = QuietReport(last'.args.vendor_id)
    /\ (last'.op = "report_failure" /\ last'.status = 200) =>
            \E i \in BatchMatches(last'.args.batch_id) :
                /\ batches'[i] # batches[i]
                /\ \A w \in VendorIds :
                      /\ Failures(w)' =
                            IF w = batches[i].vendor_details.vendor_id
                            THEN Failures(w) + 1 ELSE Failures(w)
                      /\ Supplied(w)' = Supplied(w)
                      /\ VendorBatchSet(w)' = VendorBatchSet(w)
                      /\ VendorMatches(w)' = VendorMatches(w)

\* C15: a get_vendor_analytics(V) that no write overlaps returns the sums over
\* V's stored batches, and each successful report_failure on a batch of vendor
\* V adds exactly 1 to V's sum of failures and leaves V's supply and number
\* of batches, and all three of every other vendor, as they were: the
\* total_failures_detected of a following call is 1 higher, 2 after two.
C15_ReportEffect == []C15_QuietReportIsStored /\ [][C15_ReportEffectStep]_vars

\* the report after the same failure was reported twice: 2 failures in 100
C15_Witness ==
    /\ last.op = "get_vendor_analytics" /\ last.status = 200 /\ last.clean
    /\ \E id \in BatchIds, sku \in Skus :
          /\ okCount[<<id, sku>>] = 2
          /\ \E i \in UpdateMatches(id, sku) :
                /\ batches[i].vendor_details.vendor_id = last.args.vendor_id
                /\ KeyFailures(created, id, sku) = 0
    /\ last.body.total_failures_detected = 2
    /\ last.body.total_parts_supplied = 100
    /\ last.body.batches_analyzed = 1
    /\ Len(vendors) = 2

\* which entry a successful report_failure increments
C17_FirstMatchStep ==
    (last'.op = "report_failure" /\ last'.status = 200) =>
        \E i \in UpdateMatches(last'.args.batch_id, last'.args.part_sku) :
            LET hit == PartMatches(batches[i], last'.args.part_sku)
                first == Min(hit)
            IN  /\ batches' =
                      [batches EXCEPT ![i].parts_manifest[first].failures_logged = @ + 1]
                /\ \A j \in hit \ {first} :
                      batches'[i].parts_manifest[j] = batches[i].parts_manifest[j]
                /\ SumFailures(batches'[i].parts_manifest)
                      = SumFailures(batches[i].parts_manifest) + 1

\* C17: when several entries of a manifest have the part_sku, a successful
\* report_failure adds 1 to the failures_logged of the first of them in
\* manifest order and leaves the others as they were, so the failures of the
\* batch grow by exactly 1 per call.
C17_FirstMatch == [][C17_FirstMatchStep]_vars

\* two reports on a SKU that two entries carry: the first entry has both
C17_Witness ==
    /\ last.op = "report_failure" /\ last.status = 200
    /\ okCount[<<last.args.batch_id, last.args.part_sku>>] = 2
    /\ \E i \in UpdateMatches(last.args.batch_id, last.args.part_sku) :
          LET hit == PartMatches(batches[i], last.args.part_sku)
          IN  /\ Cardinality(hit) = 2
              /\ batches[i].parts_manifest[Min(hit)].failures_logged
                    = created[i].parts_manifest[Min(hit)].failures_logged + 2
              /\ \A j \in hit \ {Min(hit)} :
                    batches[i].parts_manifest[j] = created[i].parts_manifest[j]

\* what a scan that ends returns, against the batches at its start and now
C16_ScanBoundsStep ==
    \A p \in Procs :
        /\ (call[p] = Idle /\ call'[p].op = "get_vendor_analytics") =>
                /\ call'[p].start_failures = Failures(call'[p].vendor_id)
                /\ call'[p].start_len = Len(batches)
                /\ call'[p].seen = << >>
        /\ (call[p].op = "get_vendor_analytics" /\ call'[p] = Idle) =>
                LET c == call[p]
                    v == c.vendor_id
                    r == last'.body
                    seen == {c.seen[k] : k \in DOMAIN c.seen}
                IN  /\ last'.op = "get_vendor_analytics" /\ last'.status = 200
                    /\ r.total_failures_detected >= c.start_failures
                    /\ r.total_failures_detected <= Failures(v)
                    /\ Cardinality(seen) = Len(c.seen)
                    /\ {i \in VendorBatchSet(v) : i <= c.start_len} \subseteq seen
                    /\ seen \subseteq VendorBatchSet(v)
                    /\ r.batches_analyzed = Len(c.seen)
                    /\ r.total_parts_supplied =
                          SumSet(seen, [i \in seen |->
                                          SumQuantity(batches[i].parts_manifest)])

\* C16: the total_failures_detected a get_vendor_analytics(V) returns is at
\* least the failures of V's batches when its scan started and at most their
\* failures when it ends, whatever report_failure calls overlap it, and every
\* batch of V stored before the scan started is counted exactly once in
\* batches_analyzed and in total_parts_supplied.
C16_ScanBounds == [][C16_ScanBoundsStep]_vars

\* a scan that saw one of two overlapping reports: more failures than at its
\* start, fewer than at its end
C16_Witness ==
    /\ last.op = "get_vendor_analytics" /\ last.status = 200 /\ ~last.clean
    /\ last.body.batches_analyzed = 2
    /\ last.start_failures < last.body.total_failures_detected
    /\ last.body.total_failures_detected < Failures(last.args.vendor_id)

\* a handler in flight can always take its next step: it waits for no other
C14_NeverBlocked ==
    \A p \in Procs : call[p] # Idle => ENABLED <<HandlerStep(p)>>_vars

\* C14: under FairSpec every handler in flight returns, whatever the other
\* slot does, and at no point is its next step disabled.
C14_Returns ==
    /\ []C14_NeverBlocked
    /\ \A p \in Procs : (call[p] # Idle) ~> (call[p] = Idle)

\* a scan in flight, already overlapped by a write, beside a pending write
C14_Witness ==
    \E p, q \in Procs :
        /\ call[p].op = "get_vendor_analytics" /\ call[p].dirty /\ call[p].pos > 0
        /\ CursorRest(call[p].vendor_id, call[p].pos) # {}
        /\ call[q].op \in {"report_failure", "add_batch", "register_vendor"}

===========================================================================
